---- MODULE Spec2Model ----
(***************************************************************************)
(* A model of python_hadoop: hadoop_lib/stream.py, hadoop_lib/hadoop_env.py *)
(* and demo_wordcount.py.  One HadoopJob with its ShuffleStream, its two    *)
(* HadoopContext objects, a HadoopInput over one source file and a          *)
(* HadoopOutput over one sink file.  start_job is a process whose position  *)
(* is pc; the mapper and reducer hooks are calls into user code, each one   *)
(* action that runs the hook's calls into the library.                      *)
(*                                                                         *)
(* Python strings are sequences of one-character strings; a dict is the     *)
(* sequence of its entries in insertion order; None is the string "None".   *)
(***************************************************************************)
EXTENDS Integers, Sequences, FiniteSets, TLC

\* ---------------------------------------------------------------- bounds
MaxChars == 5       \* characters in the source file of the word count
MaxRuns == 2        \* calls of start_job on the job
MaxOps == 2         \* library calls made by user code: the hooks and the caller

\* ---------------------------------------------------------------- values
Letters == {"a", "b"}
Space == " "
Newline == "\n"
Blanks == {Space, Newline}
Chars == Letters \cup Blanks

\* the source files the word count is run on, and those of a job over any hooks
DemoSources == UNION {[1..k -> Chars] : k \in 0..MaxChars}
JobSources == {<<>>, <<"b", " ", "a", "\n", "a">>}

UserKeys == {<<"a">>, <<"b">>}
UserValues == {1, 2}

Objs == {"map_context", "reduce_context", "input_stream", "shuffle_stream",
         "output_stream"}

\* the config passed to HadoopJob(config), {"opt": 1}, or nothing as in the word
\* count; and the value a hook stores under "opt"
SuppliedConfigs == {<<[key |-> "opt", value |-> 1]>>}
DemoConfigs == {<<>>}
HookOption == [key |-> "opt", value |-> 2]

UserMapperClasses == {"UserMapper"}
UserReducerClasses == {"UserReducer"}

VARIABLES
    mapper, reducer,        \* HadoopJob.mapper / .reducer: "None" or the class
    input_stream,           \* HadoopJob.input_stream (and map_context): "None" or set
    output_stream,          \* HadoopJob.output_stream (and reduce_context)
    config_dict,            \* HadoopJob.config, the dict both contexts hold
    supplied,               \* the config argument of HadoopJob(config)
    open_state,             \* Stream.open_state of each object; "unset" = no attribute
    shuffle_pair,           \* ShuffleStream.shuffle_pair
    write_phase,            \* ShuffleStream.__write_phase
    file_stream,            \* HadoopOutput.__file_stream: "None", "open", "closed"
    out_file,               \* the sink file: the (key, value) lines written to it
    source,                 \* the source file: its text
    source_exists,          \* os.path.exists(path) of the source
    sink_writable,          \* whether open(path, "w") of the sink succeeds
    successful,             \* HadoopJob.successful
    pc,                     \* position of the caller / of start_job
    exc,                    \* the exception propagating through start_job
    gen_pos,                \* lines consumed from __get_assembled_input_stream
    handle,                 \* what ShuffleStream.__enter__ last returned
    cur,                    \* the record or group handed to map / reduce
    runs, ops,              \* calls counted against MaxRuns / MaxOps
    W,                      \* history: writes the store took since it was last empty
    calls,                  \* history: hooks invoked by the current run
    last_write,             \* history: the last write call and what it did
    read_exits,             \* history: ShuffleStream scopes closed in read phase
    run                     \* history: how the last start_job run began and ended

config == <<mapper, reducer, input_stream, output_stream, config_dict>>
environ == <<source, source_exists, sink_writable, supplied>>
store == <<shuffle_pair, write_phase>>
sink == <<file_stream, out_file>>
history == <<W, calls, last_write, read_exits, run>>
vars == <<config, environ, store, sink, open_state, successful, pc, exc, gen_pos,
          handle, cur, runs, ops, history>>

NoHandle == [kind |-> "none", used |-> 0, pos |-> 0, last |-> "none"]
NoRecord == [key |-> <<>>, value |-> <<>>]
NoWrite == [via |-> "none", stream |-> "none", stream_open |-> "unset",
            write_phase |-> TRUE, result |-> "None", changed |-> FALSE]
NoRun == [status |-> "none", exc |-> "None", hook |-> "none", flag0 |-> FALSE,
          phase0 |-> TRUE, ops0 |-> 0, groups0 |-> 0]

\* ------------------------------------------------------------ stream.py
\* Stream.is_open: reads the attribute, which exists only once __enter__ or
\* __exit__ has run (no subclass calls Stream.__init__)
is_open(o) == open_state[o] = "True"
has_open_state(o) == open_state[o] # "unset"

\* HadoopJob.map_context / reduce_context: created with the stream
map_context == IF input_stream = "None" THEN "None" ELSE "HadoopContext"
reduce_context == IF output_stream = "None" THEN "None" ELSE "HadoopContext"


\* ------------------------------------------------- text of the adapters
RECURSIVE lstrip(_)
lstrip(s) == IF s # <<>> /\ Head(s) \in Blanks THEN lstrip(Tail(s)) ELSE s

RECURSIVE rstrip(_)
rstrip(s) ==
    IF s # <<>> /\ s[Len(s)] \in Blanks THEN rstrip(SubSeq(s, 1, Len(s) - 1)) ELSE s

\* str.strip()
strip(s) == rstrip(lstrip(s))

\* the first word of a string that starts with a word, and what follows it
RECURSIVE word_end(_, _)
word_end(s, i) == IF i < Len(s) /\ s[i + 1] \notin Blanks THEN word_end(s, i + 1) ELSE i

\* str.split(): the maximal runs of non-blank characters, in order
RECURSIVE split(_)
split(s) ==
    IF s = <<>> THEN <<>>
    ELSE IF Head(s) \in Blanks THEN split(Tail(s))
    ELSE LET e == word_end(s, 1)
         IN  <<SubSeq(s, 1, e)>> \o split(SubSeq(s, e + 1, Len(s)))

\* for line in file: each line up to and with its newline, the rest as the last
RECURSIVE line_end(_, _)
line_end(s, i) == IF i < Len(s) /\ s[i] # Newline THEN line_end(s, i + 1) ELSE i

RECURSIVE file_lines(_)
file_lines(s) ==
    IF s = <<>> THEN <<>>
    ELSE LET e == line_end(s, 1)
         IN  <<SubSeq(s, 1, e)>> \o file_lines(SubSeq(s, e + 1, Len(s)))

\* sum(values)
RECURSIVE sum(_)
sum(vs) == IF vs = <<>> THEN 0 ELSE Head(vs) + sum(Tail(vs))

DigitChars == <<"0", "1", "2", "3", "4", "5", "6", "7", "8", "9">>

\* str(n) of a natural number
RECURSIVE str_int(_)
str_int(n) ==
    IF n < 10 THEN <<DigitChars[n + 1]>>
    ELSE str_int(n \div 10) \o <<DigitChars[(n % 10) + 1]>>

\* HadoopInput's default_format_func(line_id, line)
input_format_func(line_id, line) == [key |-> line_id, value |-> strip(line)]

\* HadoopOutput's default_format_func(key, value): "{} {}\n"
output_format_func(key, value) == key \o <<" ">> \o str_int(value) \o <<"\n">>

\* ------------------------------------------------------- HadoopContext
\* HadoopContext.get_configuration: self.config, which HadoopJob.set_input_stream
\* and set_output_stream pass as the job's own dict
get_configuration(ctx) == config_dict

\* d[k] = v on a dict
DictSet(d, k, v) ==
    IF \E i \in 1..Len(d) : d[i].key = k
    THEN [i \in 1..Len(d) |-> IF d[i].key = k THEN [key |-> k, value |-> v] ELSE d[i]]
    ELSE Append(d, [key |-> k, value |-> v])

\* ------------------------------------------------------- ShuffleStream
HasKey(sp, k) == \E i \in 1..Len(sp) : sp[i].key = k

\* variant: the value replaces the list of a key already there
DictWrite_overwrite(sp, k, v) ==
    IF HasKey(sp, k)
    THEN [i \in 1..Len(sp) |->
            IF sp[i].key = k THEN [key |-> k, values |-> <<v>>] ELSE sp[i]]
    ELSE Append(sp, [key |-> k, values |-> <<v>>])

\* self.shuffle_pair[key].append(value) or self.shuffle_pair[key] = [value]
DictWrite(sp, k, v) ==
    IF HasKey(sp, k)
    THEN [i \in 1..Len(sp) |->
            IF sp[i].key = k
            THEN [key |-> k, values |-> Append(sp[i].values, v)]
            ELSE sp[i]]
    ELSE Append(sp, [key |-> k, values |-> <<v>>])

\* variant: entering the scope returns the iterator of the groups in any phase
ShuffleStream_enter_iter ==
    [kind |-> "iter", used |-> Len(shuffle_pair), pos |-> 0, last |-> "none"]

\* ShuffleStream.__enter__: what it returns
ShuffleStream_enter ==
    IF write_phase
    THEN [kind |-> "self", used |-> 0, pos |-> 0, last |-> "none"]
    ELSE [kind |-> "iter", used |-> Len(shuffle_pair), pos |-> 0, last |-> "none"]

\* variant: leaving the write scope does not end the write phase
ShuffleStream_exit_noflip ==
    [shuffle_pair |-> shuffle_pair, write_phase |-> write_phase,
     read_exits |-> read_exits, W |-> W]

\* variant: leaving a read scope returns the store to write phase
ShuffleStream_exit_rewind ==
    IF write_phase
    THEN [shuffle_pair |-> shuffle_pair, write_phase |-> FALSE,
          read_exits |-> read_exits, W |-> W]
    ELSE [shuffle_pair |-> <<>>, write_phase |-> TRUE,
          read_exits |-> read_exits + 1, W |-> <<>>]

\* variant: leaving a read scope keeps the groups
ShuffleStream_exit_keep ==
    IF write_phase
    THEN [shuffle_pair |-> shuffle_pair, write_phase |-> FALSE,
          read_exits |-> read_exits, W |-> W]
    ELSE [shuffle_pair |-> shuffle_pair, write_phase |-> FALSE,
          read_exits |-> read_exits + 1, W |-> W]

\* ShuffleStream.__exit__: the store afterwards
ShuffleStream_exit ==
    IF write_phase
    THEN [shuffle_pair |-> shuffle_pair, write_phase |-> FALSE,
          read_exits |-> read_exits, W |-> W]
    ELSE [shuffle_pair |-> <<>>, write_phase |-> FALSE,
          read_exits |-> read_exits + 1, W |-> <<>>]

\* variant: the iterator is exhausted once it has yielded one group
IterNext_once(h) ==
    IF h.kind # "iter" THEN [exc |-> "TypeError", h |-> [h EXCEPT !.last = "TypeError"]]
    ELSE IF h.used # Len(shuffle_pair)
         THEN [exc |-> "RuntimeError", h |-> [h EXCEPT !.last = "RuntimeError"]]
    ELSE IF h.pos < Len(shuffle_pair) /\ h.pos < 1
         THEN [exc |-> "None", h |-> [h EXCEPT !.pos = @ + 1, !.last = "item"]]
         ELSE [exc |-> "StopIteration", h |-> [h EXCEPT !.last = "StopIteration"]]

\* next() on what ShuffleStream.__enter__ returned: the ShuffleStream itself is
\* not iterable; a dict iterator refuses a dict whose size has changed; h.last
\* keeps what the call came to ("item" when it yielded one)
IterNext(h) ==
    IF h.kind # "iter" THEN [exc |-> "TypeError", h |-> [h EXCEPT !.last = "TypeError"]]
    ELSE IF h.used # Len(shuffle_pair)
         THEN [exc |-> "RuntimeError", h |-> [h EXCEPT !.last = "RuntimeError"]]
    ELSE IF h.pos < Len(shuffle_pair)
         THEN [exc |-> "None", h |-> [h EXCEPT !.pos = @ + 1, !.last = "item"]]
         ELSE [exc |-> "StopIteration", h |-> [h EXCEPT !.last = "StopIteration"]]

\* ---------------------------------------------- writes, on a world record
\* w = [sp, file, W, exc, last]: the parts of the state a write can change
World == [sp |-> shuffle_pair, file |-> out_file, W |-> W, exc |-> "None",
          last |-> last_write]

\* history: who wrote to which stream, in what state, and what came of it
WriteRecord(via, stream, result, changed) ==
    [via |-> via, stream |-> stream, stream_open |-> open_state[stream],
     write_phase |-> write_phase, result |-> result, changed |-> changed]

\* the call raises
Fail(w, via, stream, kind) ==
    [w EXCEPT !.exc = kind, !.last = WriteRecord(via, stream, kind, FALSE)]

\* ShuffleStream.write(key, value)
ShuffleStream_write(w, via, k, v) ==
    [w EXCEPT !.sp = DictWrite(w.sp, k, v),
              !.W = Append(w.W, <<k, v>>),
              !.last = WriteRecord(via, "shuffle_stream", "ok",
                                   DictWrite(w.sp, k, v) # w.sp)]

\* HadoopOutput.write(key, value)
HadoopOutput_write(w, via, k, v) ==
    IF file_stream = "None" THEN Fail(w, via, "output_stream", "AssertionError")
    ELSE IF ~has_open_state("output_stream")
         THEN Fail(w, via, "output_stream", "AttributeError")
    ELSE IF ~is_open("output_stream")
         THEN Fail(w, via, "output_stream", "AssertionError")
    ELSE IF file_stream = "closed"
         THEN Fail(w, via, "output_stream", "ValueError")
    ELSE [w EXCEPT !.file = Append(w.file, output_format_func(k, v)),
                   !.last = WriteRecord(via, "output_stream", "ok", TRUE)]

\* the writable stream a context wraps
key_value_output_stream(ctx) ==
    IF ctx = "map_context" THEN "shuffle_stream" ELSE "output_stream"

\* variant: the context delegates without asserting that the stream is open
Context_write_unguarded(w, ctx, k, v) ==
    IF key_value_output_stream(ctx) = "shuffle_stream"
    THEN ShuffleStream_write(w, ctx, k, v)
    ELSE HadoopOutput_write(w, ctx, k, v)

\* variant: the context delegates the record twice
Context_write_twice(w, ctx, k, v) ==
    LET out == key_value_output_stream(ctx)
    IN  IF ~has_open_state(out) THEN Fail(w, ctx, out, "AttributeError")
        ELSE IF ~is_open(out) THEN Fail(w, ctx, out, "AssertionError")
        ELSE IF out = "shuffle_stream"
             THEN ShuffleStream_write(ShuffleStream_write(w, ctx, k, v), ctx, k, v)
        ELSE HadoopOutput_write(HadoopOutput_write(w, ctx, k, v), ctx, k, v)

\* HadoopContext.write(key, value)
Context_write(w, ctx, k, v) ==
    LET out == key_value_output_stream(ctx)
    IN  IF ~has_open_state(out) THEN Fail(w, ctx, out, "AttributeError")
        ELSE IF ~is_open(out) THEN Fail(w, ctx, out, "AssertionError")
        ELSE IF out = "shuffle_stream" THEN ShuffleStream_write(w, ctx, k, v)
        ELSE HadoopOutput_write(w, ctx, k, v)

\* one write of user code: through a context, or on the job's ShuffleStream
\* directly
Ops == [via : {"map_context"}, key : UserKeys, value : UserValues]
       \cup [via : {"reduce_context", "shuffle_stream"}, key : {<<"a">>},
             value : {1}]

DoOp(w, op) ==
    IF op.via = "shuffle_stream"
    THEN ShuffleStream_write(w, "direct", op.key, op.value)
    ELSE Context_write(w, op.via, op.key, op.value)

\* the calls of a hook in order; an exception ends the hook
RECURSIVE RunScript(_, _)
RunScript(w, s) ==
    IF s = <<>> \/ w.exc # "None" THEN w
    ELSE RunScript(DoOp(w, Head(s)), Tail(s))


\* ------------------------------------------------------------ the hooks
HookPcs == {"mapper_setup", "mapper_map", "mapper_cleanup",
            "reducer_setup", "reducer_reduce", "reducer_cleanup"}
MapHookPcs == {"mapper_setup", "mapper_map", "mapper_cleanup"}

\* variant: the with block is left as soon as setup has returned
OkPc_setup_leaves(p) ==
    CASE p = "mapper_setup" -> "map_exit"
      [] p = "mapper_map" -> "map_next"
      [] p = "mapper_cleanup" -> "map_exit"
      [] p = "reducer_setup" -> "reduce_exit"
      [] p = "reducer_reduce" -> "reduce_next"
      [] p = "reducer_cleanup" -> "reduce_exit"

\* where start_job goes on when the hook returns, and when it raises
OkPc(p) ==
    CASE p = "mapper_setup" -> "map_next"
      [] p = "mapper_map" -> "map_next"
      [] p = "mapper_cleanup" -> "map_exit"
      [] p = "reducer_setup" -> "reduce_next"
      [] p = "reducer_reduce" -> "reduce_next"
      [] p = "reducer_cleanup" -> "reduce_exit"
ExitPc(p) == IF p \in MapHookPcs THEN "map_exit" ELSE "reduce_exit"

\* the object whose hook runs: self.mapper or self.reducer
HookClass(p) == IF p \in MapHookPcs THEN mapper ELSE reducer

UserClasses == UserMapperClasses \cup UserReducerClasses

\* WordCountMapper.map: context.write(word, 1) for each word of value.split()
WordCountMapper_map ==
    LET words == split(cur.value)
    IN  [i \in 1..Len(words) |->
            [via |-> "map_context", key |-> words[i], value |-> 1]]

\* variant: the reducer writes the first value instead of the sum
WordCountReducer_reduce_first ==
    <<[via |-> "reduce_context", key |-> cur.key, value |-> cur.value[1]]>>

\* WordCountReducer.reduce: context.write(key, sum(values))
WordCountReducer_reduce ==
    <<[via |-> "reduce_context", key |-> cur.key, value |-> sum(cur.value)]>>

\* the writes of a hook of the word count; setup and cleanup are inherited
HookBody(p) ==
    IF p = "mapper_map" THEN WordCountMapper_map
    ELSE IF p = "reducer_reduce" THEN WordCountReducer_reduce
    ELSE <<>>

\* a hook of WordCountMapper or WordCountReducer runs
WordCountHook ==
    /\ pc \in HookPcs
    /\ HookClass(pc) \notin UserClasses
    /\ LET w == RunScript(World, HookBody(pc))
       IN  /\ shuffle_pair' = w.sp
           /\ out_file' = w.file
           /\ W' = w.W
           /\ last_write' = w.last
           /\ exc' = w.exc
           /\ pc' = IF w.exc = "None" THEN OkPc(pc) ELSE ExitPc(pc)
           /\ run' = IF w.exc = "None" THEN run ELSE [run EXCEPT !.hook = pc]
    /\ UNCHANGED <<config, environ, write_phase, file_stream, open_state, successful,
                   gen_pos, handle, cur, runs, ops, calls, read_exits>>

\* user code writes: in a hook of a user-written class, where what the write
\* raises leaves the hook, or in the caller, who catches it
Write(op) ==
    /\ pc \in HookPcs \cup {"idle", "client_scope"}
    /\ pc \in HookPcs => HookClass(pc) \in UserClasses
    /\ ops < MaxOps
    /\ op.via = "map_context" => map_context # "None"
    /\ op.via = "reduce_context" => reduce_context # "None"
    /\ LET w == DoOp(World, op)
           raised == pc \in HookPcs /\ w.exc # "None"
       IN  /\ shuffle_pair' = w.sp
           /\ out_file' = w.file
           /\ W' = w.W
           /\ last_write' = w.last
           /\ exc' = IF raised THEN w.exc ELSE exc
           /\ pc' = IF raised THEN ExitPc(pc) ELSE pc
           /\ run' = IF raised THEN [run EXCEPT !.hook = pc] ELSE run
    /\ ops' = ops + 1
    /\ UNCHANGED <<config, environ, write_phase, file_stream, open_state, successful,
                   gen_pos, handle, cur, runs, calls, read_exits>>

\* a hook of a user-written class stores an option in the dict that its
\* context's get_configuration() returns
SetConfig ==
    /\ pc \in HookPcs
    /\ HookClass(pc) \in UserClasses
    /\ ops < MaxOps
    /\ LET ctx == IF pc \in MapHookPcs THEN "map_context" ELSE "reduce_context"
       IN  config_dict' = DictSet(get_configuration(ctx), HookOption.key,
                                  HookOption.value)
    /\ ops' = ops + 1
    /\ UNCHANGED <<mapper, reducer, input_stream, output_stream, environ, store, sink,
                   open_state, successful, pc, exc, gen_pos, handle, cur, runs,
                   history>>

\* a hook of a user-written class returns
HookReturn ==
    /\ pc \in HookPcs
    /\ HookClass(pc) \in UserClasses
    /\ pc' = OkPc(pc)
    /\ UNCHANGED <<config, environ, store, sink, open_state, successful, exc, gen_pos,
                   handle, cur, runs, ops, history>>

\* a hook of a user-written class raises
HookRaise ==
    /\ pc \in HookPcs
    /\ HookClass(pc) \in UserClasses
    /\ exc' = "UserError"
    /\ pc' = ExitPc(pc)
    /\ run' = [run EXCEPT !.hook = pc]
    /\ UNCHANGED <<config, environ, store, sink, open_state, successful, gen_pos,
                   handle, cur, runs, ops, W, calls, last_write, read_exits>>

\* ------------------------------------------------------------ HadoopJob
InitWith(sources, configs) ==
    /\ mapper = "None" /\ reducer = "None"
    /\ input_stream = "None" /\ output_stream = "None"
    /\ supplied \in configs
    /\ config_dict = supplied
    /\ open_state = [o \in Objs |-> "unset"]
    /\ shuffle_pair = <<>> /\ write_phase = TRUE
    /\ file_stream = "None" /\ out_file = <<>>
    /\ source \in sources
    /\ source_exists = TRUE
    /\ sink_writable \in BOOLEAN
    /\ successful = FALSE
    /\ pc = "idle" /\ exc = "None"
    /\ gen_pos = 0 /\ handle = NoHandle /\ cur = NoRecord
    /\ runs = 0 /\ ops = 0
    /\ W = <<>> /\ calls = <<>> /\ last_write = NoWrite /\ read_exits = 0
    /\ run = NoRun

Init == InitWith(JobSources, SuppliedConfigs)

\* HadoopJob.set_mapper(mapper_cls)
set_mapper(cls) ==
    /\ pc = "idle"
    /\ mapper = "None"
    /\ mapper' = cls
    /\ UNCHANGED <<reducer, input_stream, output_stream, config_dict, environ, store, sink,
                   open_state, successful, pc, exc, gen_pos, handle, cur, runs,
                   ops, history>>

\* HadoopJob.set_reducer(reducer_cls)
set_reducer(cls) ==
    /\ pc = "idle"
    /\ reducer = "None"
    /\ reducer' = cls
    /\ UNCHANGED <<mapper, input_stream, output_stream, config_dict, environ, store, sink,
                   open_state, successful, pc, exc, gen_pos, handle, cur, runs,
                   ops, history>>

\* HadoopInput.set_input_paths(job, paths), for the one source file, and the
\* HadoopJob.set_input_stream it ends with: the map context is created
set_input_paths ==
    /\ pc = "idle"
    /\ input_stream = "None"
    /\ source_exists
    /\ input_stream' = "HadoopInput"
    /\ UNCHANGED <<mapper, reducer, output_stream, config_dict, environ, store, sink,
                   open_state, successful, pc, exc, gen_pos, handle, cur, runs, ops, history>>

\* HadoopOutput.set_output_path(job, path) and the HadoopJob.set_output_stream
\* it ends with: the reduce context is created
set_output_path ==
    /\ pc = "idle"
    /\ output_stream = "None"
    /\ output_stream' = "HadoopOutput"
    /\ UNCHANGED <<mapper, reducer, input_stream, config_dict, environ, store, sink,
                   open_state, successful, pc, exc, gen_pos, handle, cur, runs, ops, history>>

\* the source file is removed after set_input_paths has seen it
RemoveSource ==
    /\ pc = "idle"
    /\ source_exists
    /\ input_stream # "None"
    /\ source_exists' = FALSE
    /\ UNCHANGED <<config, source, sink_writable, supplied, store, sink, open_state, successful,
                   pc, exc, gen_pos, handle, cur, runs, ops, history>>

\* variant: the start check does not look at the reducer
start_check_no_reducer ==
    /\ mapper # "None"
    /\ input_stream # "None"
    /\ output_stream # "None"
    /\ map_context # "None"
    /\ reduce_context # "None"

\* HadoopJob.__start_check
start_check ==
    /\ mapper # "None"
    /\ reducer # "None"
    /\ input_stream # "None"
    /\ output_stream # "None"
    /\ map_context # "None"
    /\ reduce_context # "None"

\* HadoopJob.is_successful
is_successful == successful

\* start_job is called: __start_check
StartJob ==
    /\ pc = "idle"
    /\ runs < MaxRuns
    /\ runs' = runs + 1
    /\ calls' = <<>>
    /\ IF start_check
       THEN /\ pc' = "map_enter"
            /\ run' = [status |-> "running", exc |-> "None", hook |-> "none",
                       flag0 |-> successful, phase0 |-> write_phase,
                       ops0 |-> ops, groups0 |-> Len(shuffle_pair)]
       ELSE /\ pc' = "idle"
            /\ run' = [status |-> "raised", exc |-> "AssertionError",
                       hook |-> "none", flag0 |-> successful,
                       phase0 |-> write_phase, ops0 |-> ops,
                       groups0 |-> Len(shuffle_pair)]
    /\ UNCHANGED <<config, environ, store, sink, open_state, successful, exc,
                   gen_pos, handle, cur, ops, W, last_write, read_exits>>

\* with self.map_context: HadoopContext.__enter__ opens the context, the
\* ShuffleStream (whose handle it drops) and the HadoopInput (a new generator);
\* then self.mapper.setup is called
MapEnter ==
    /\ pc = "map_enter"
    /\ open_state' = [open_state EXCEPT !["map_context"] = "True",
                                        !["shuffle_stream"] = "True",
                                        !["input_stream"] = "True"]
    /\ gen_pos' = 0
    /\ pc' = "mapper_setup"
    /\ calls' = Append(calls, "mapper_setup")
    /\ UNCHANGED <<config, environ, store, sink, successful, exc, handle, cur, runs,
                   ops, W, last_write, read_exits, run>>

\* for key, value in opened_map_context: the generator opens the file at its
\* first step and yields format_func(current_line, line) for each line, and
\* self.mapper.map is called; after the last line, self.mapper.cleanup
MapNext ==
    /\ pc = "map_next"
    /\ IF gen_pos = 0 /\ ~source_exists
       THEN /\ exc' = "FileNotFoundError"
            /\ pc' = "map_exit"
            /\ UNCHANGED <<gen_pos, cur, calls>>
       ELSE IF gen_pos < Len(file_lines(source))
       THEN /\ cur' = input_format_func(gen_pos, file_lines(source)[gen_pos + 1])
            /\ gen_pos' = gen_pos + 1
            /\ pc' = "mapper_map"
            /\ calls' = Append(calls, "mapper_map")
            /\ UNCHANGED exc
       ELSE /\ pc' = "mapper_cleanup"
            /\ calls' = Append(calls, "mapper_cleanup")
            /\ UNCHANGED <<exc, gen_pos, cur>>
    /\ UNCHANGED <<config, environ, store, sink, open_state, successful, handle, runs,
                   ops, W, last_write, read_exits, run>>

\* the with block of the map context is left: HadoopContext.__exit__ closes the
\* context, the HadoopInput and the ShuffleStream; it returns None, so an
\* exception goes on to the caller of start_job
MapExit ==
    /\ pc = "map_exit"
    /\ open_state' = [open_state EXCEPT !["map_context"] = "False",
                                        !["input_stream"] = "False",
                                        !["shuffle_stream"] = "False"]
    /\ shuffle_pair' = ShuffleStream_exit.shuffle_pair
    /\ write_phase' = ShuffleStream_exit.write_phase
    /\ read_exits' = ShuffleStream_exit.read_exits
    /\ W' = ShuffleStream_exit.W
    /\ exc' = "None"
    /\ IF exc = "None"
       THEN /\ pc' = "reduce_enter"
            /\ UNCHANGED run
       ELSE /\ pc' = "idle"
            /\ run' = [run EXCEPT !.status = "raised", !.exc = exc]
    /\ UNCHANGED <<config, environ, sink, successful, gen_pos, handle, cur, runs,
                   ops, calls, last_write>>

\* with self.reduce_context: HadoopContext.__enter__ opens the context, then the
\* HadoopOutput (open_state first, then the file, truncated), then the
\* ShuffleStream; what open() raises leaves __enter__, and no __exit__ follows;
\* then self.reducer.setup is called
ReduceEnter ==
    /\ pc = "reduce_enter"
    /\ IF sink_writable
       THEN /\ open_state' = [open_state EXCEPT !["reduce_context"] = "True",
                                                !["output_stream"] = "True",
                                                !["shuffle_stream"] = "True"]
            /\ file_stream' = "open"
            /\ out_file' = <<>>
            /\ handle' = ShuffleStream_enter
            /\ pc' = "reducer_setup"
            /\ calls' = Append(calls, "reducer_setup")
            /\ UNCHANGED run
       ELSE /\ open_state' = [open_state EXCEPT !["reduce_context"] = "True",
                                                !["output_stream"] = "True"]
            /\ pc' = "idle"
            /\ run' = [run EXCEPT !.status = "raised", !.exc = "OSError"]
            /\ UNCHANGED <<file_stream, out_file, handle, calls>>
    /\ UNCHANGED <<config, environ, store, successful, exc, gen_pos, cur, runs,
                   ops, W, last_write, read_exits>>

\* for key, values in opened_reduce_context: self.reducer.reduce is called with
\* the next group; after the last one, self.reducer.cleanup
ReduceNext ==
    /\ pc = "reduce_next"
    /\ LET n == IterNext(handle)
       IN  /\ handle' = n.h
           /\ IF n.exc = "None"
              THEN /\ cur' = [key |-> shuffle_pair[n.h.pos].key,
                              value |-> shuffle_pair[n.h.pos].values]
                   /\ pc' = "reducer_reduce"
                   /\ calls' = Append(calls, "reducer_reduce")
                   /\ UNCHANGED exc
              ELSE IF n.exc = "StopIteration"
              THEN /\ pc' = "reducer_cleanup"
                   /\ calls' = Append(calls, "reducer_cleanup")
                   /\ UNCHANGED <<exc, cur>>
              ELSE /\ exc' = n.exc
                   /\ pc' = "reduce_exit"
                   /\ UNCHANGED <<cur, calls>>
    /\ UNCHANGED <<config, environ, store, sink, open_state, successful, gen_pos,
                   runs, ops, W, last_write, read_exits, run>>

\* the with block of the reduce context is left: HadoopContext.__exit__ closes
\* the context, the ShuffleStream and the HadoopOutput with its file
ReduceExit ==
    /\ pc = "reduce_exit"
    /\ open_state' = [open_state EXCEPT !["reduce_context"] = "False",
                                        !["shuffle_stream"] = "False",
                                        !["output_stream"] = "False"]
    /\ shuffle_pair' = ShuffleStream_exit.shuffle_pair
    /\ write_phase' = ShuffleStream_exit.write_phase
    /\ read_exits' = ShuffleStream_exit.read_exits
    /\ W' = ShuffleStream_exit.W
    /\ file_stream' = "closed"
    /\ handle' = NoHandle
    /\ exc' = "None"
    /\ IF exc = "None"
       THEN /\ pc' = "set_successful"
            /\ UNCHANGED run
       ELSE /\ pc' = "idle"
            /\ run' = [run EXCEPT !.status = "raised", !.exc = exc]
    /\ UNCHANGED <<config, environ, out_file, successful, gen_pos, cur, runs,
                   ops, calls, last_write>>

\* self.successful = True, and start_job returns
SetSuccessful ==
    /\ pc = "set_successful"
    /\ successful' = TRUE
    /\ pc' = "idle"
    /\ run' = [run EXCEPT !.status = "returned"]
    /\ UNCHANGED <<config, environ, store, sink, open_state, exc, gen_pos, handle,
                   cur, runs, ops, W, calls, last_write, read_exits>>

\* ------------------------------------------- the caller, outside start_job
\* with job.shuffle_stream as h: ShuffleStream.__enter__
ClientEnter ==
    /\ pc = "idle"
    /\ ops < MaxOps
    /\ open_state' = [open_state EXCEPT !["shuffle_stream"] = "True"]
    /\ handle' = ShuffleStream_enter
    /\ pc' = "client_scope"
    /\ ops' = ops + 1
    /\ UNCHANGED <<config, environ, store, sink, successful, exc, gen_pos, cur, runs,
                   history>>

\* next(h) inside that with block; the caller catches what it raises
ClientNext ==
    /\ pc = "client_scope"
    /\ LET n == IterNext(handle)
       IN  /\ handle' = n.h
           /\ cur' = IF n.exc = "None"
                     THEN [key |-> shuffle_pair[n.h.pos].key,
                           value |-> shuffle_pair[n.h.pos].values]
                     ELSE cur
    /\ UNCHANGED <<config, environ, store, sink, open_state, successful, pc, exc,
                   gen_pos, runs, ops, history>>

\* that with block is left: ShuffleStream.__exit__
ClientExit ==
    /\ pc = "client_scope"
    /\ open_state' = [open_state EXCEPT !["shuffle_stream"] = "False"]
    /\ shuffle_pair' = ShuffleStream_exit.shuffle_pair
    /\ write_phase' = ShuffleStream_exit.write_phase
    /\ read_exits' = ShuffleStream_exit.read_exits
    /\ W' = ShuffleStream_exit.W
    /\ handle' = NoHandle
    /\ pc' = "idle"
    /\ UNCHANGED <<config, environ, sink, successful, exc, gen_pos, cur, runs,
                   ops, calls, last_write, run>>

\* ------------------------------------------------------- specifications
Next ==
    \/ \E cls \in UserMapperClasses : set_mapper(cls)
    \/ \E cls \in UserReducerClasses : set_reducer(cls)
    \/ set_input_paths
    \/ set_output_path
    \/ RemoveSource
    \/ StartJob
    \/ MapEnter
    \/ MapNext
    \/ MapExit
    \/ ReduceEnter
    \/ ReduceNext
    \/ ReduceExit
    \/ SetSuccessful
    \/ \E op \in Ops : Write(op)
    \/ SetConfig
    \/ HookReturn
    \/ HookRaise
    \/ ClientEnter
    \/ ClientNext
    \/ ClientExit

Spec == Init /\ [][Next]_vars

\* demo_wordcount.py: the job is set up with WordCountMapper and
\* WordCountReducer, in the order of the script, and started once
InitDemo == InitWith(DemoSources, DemoConfigs)

NextDemo ==
    \/ set_mapper("WordCountMapper")
    \/ mapper # "None" /\ set_reducer("WordCountReducer")
    \/ reducer # "None" /\ set_input_paths
    \/ input_stream # "None" /\ set_output_path
    \/ output_stream # "None" /\ runs = 0 /\ StartJob
    \/ MapEnter
    \/ MapNext
    \/ MapExit
    \/ ReduceEnter
    \/ ReduceNext
    \/ ReduceExit
    \/ SetSuccessful
    \/ WordCountHook

SpecDemo == InitDemo /\ [][NextDemo]_vars


\* ================================================================ claims
MapperHooks == {"mapper_setup", "mapper_map", "mapper_cleanup"}
ReducerHooks == {"reducer_setup", "reducer_reduce", "reducer_cleanup"}

\* how often the current run has invoked a hook
Count(name) == Cardinality({i \in 1..Len(calls) : calls[i] = name})

\* the run of start_job has ended and the caller has control again
RunEnded == pc = "idle" /\ run.status \in {"returned", "raised"}

\* the keys of a sequence of writes, and the values written with a key, in order
KeysOf(log) == {log[i][1] : i \in 1..Len(log)}
ValuesOf(log, k) ==
    LET WithKey(e) == e[1] = k
        hits == SelectSeq(log, WithKey)
    IN  [i \in 1..Len(hits) |-> hits[i][2]]

\* sp holds exactly one group for each key of log, and the group of a key is
\* the sub-sequence of log's values written with it
Grouped(sp, log) ==
    /\ \A i, j \in 1..Len(sp) : i # j => sp[i].key # sp[j].key
    /\ {sp[i].key : i \in 1..Len(sp)} = KeysOf(log)
    /\ \A i \in 1..Len(sp) : sp[i].values = ValuesOf(log, sp[i].key)

C2_WritesRejectedInReadPhase ==
    (last_write.stream = "shuffle_stream" /\ ~last_write.write_phase)
        => (last_write.result # "ok" /\ ~last_write.changed)

\* C3: shuffle barrier.  A reducer hook is invoked only after mapper.cleanup
\* has been invoked and has returned, no mapper hook is invoked after a reducer
\* hook, and while a reducer hook runs the map context and the input stream are
\* closed and the shuffle store is in read phase.
C3_ShuffleBarrier ==
    /\ \A i \in 1..Len(calls) :
         calls[i] \in ReducerHooks =>
            /\ \E j \in 1..(i - 1) : calls[j] = "mapper_cleanup"
            /\ \A j \in i..Len(calls) : calls[j] \notin MapperHooks
    /\ pc \in ReducerHooks \cup {"reduce_next"} =>
         /\ open_state["map_context"] = "False"
         /\ open_state["input_stream"] = "False"
         /\ ~write_phase

\* reducer.reduce runs after two map calls
C3_Witness ==
    /\ pc = "reducer_reduce"
    /\ Count("mapper_map") = 2
    /\ calls[Len(calls)] = "reducer_reduce"

\* both phases of the last run ran to completion without a failure
PhasesCompleted ==
    /\ run.status = "returned"
    /\ run.exc = "None"
    /\ Count("mapper_cleanup") = 1
    /\ Count("reducer_cleanup") = 1

\* C4: success signal.  Queried after a run of start_job has ended,
\* is_successful() is true if and only if both phases of that run ran to
\* completion without a failure.
C4_SuccessSignal == RunEnded => (is_successful <=> PhasesCompleted)

\* C5: failure isolation.  If mapper.map raises, then after start_job ends the
\* success flag is false and the map context, the input stream and the shuffle
\* store report is_open() = false.
C5_FailureIsolation ==
    (RunEnded /\ run.status = "raised" /\ run.hook = "mapper_map")
        => /\ ~is_successful
           /\ \A o \in {"map_context", "input_stream", "shuffle_stream"} :
                open_state[o] = "False"

\* the two streams the context of the failing hook's phase wraps
WrappedBy(hook) ==
    IF hook \in MapperHooks THEN {"input_stream", "shuffle_stream"}
    ELSE {"shuffle_stream", "output_stream"}

\* C6: user callback failure.  What a hook raises goes on to the caller of
\* start_job, no later hook of the run is invoked, both streams of the phase's
\* context are closed, and the success flag is false.
C6_CallbackFailure ==
    (RunEnded /\ run.hook # "none")
        => /\ run.status = "raised"
           /\ run.exc # "None"
           /\ calls[Len(calls)] = run.hook
           /\ \A o \in WrappedBy(run.hook) : open_state[o] = "False"
           /\ ~is_successful

\* what the guard of HadoopContext.write raises: the failed assertion, or the
\* AttributeError of is_open() on a stream that has no open_state yet
GuardErrors == {"AssertionError", "AttributeError"}

\* C7: context write guard.  A context.write made while the context's writable
\* stream is not open (never opened, or closed) raises at the guard, and the
\* record is not added to the stream.
C7_ContextWriteGuard ==
    (last_write.via \in {"map_context", "reduce_context"}
     /\ last_write.stream_open # "True")
        => (last_write.result \in GuardErrors /\ ~last_write.changed)

\* the caller writes through the map context after the run has closed the store
C7_Witness ==
    /\ pc = "idle"
    /\ run.status = "returned"
    /\ last_write.via = "map_context"
    /\ last_write.stream_open = "False"
    /\ last_write.result = "AssertionError"

\* C8: single-pass read drain.  Once a read scope of the shuffle store has been
\* left, every later entry in read phase yields a sequence with no groups.
C8_SinglePassDrain ==
    (read_exits >= 1 /\ handle.kind = "iter") => (handle.used = 0 /\ handle.pos = 0)

EmptyInput == file_lines(source) = <<>>

\* the run is past both with blocks, on an input of no records
EmptyRunDone == pc = "set_successful" /\ EmptyInput

Words == split(source)
WordSet == {Words[i] : i \in 1..Len(Words)}
Occurrences(w) == Cardinality({i \in 1..Len(Words) : Words[i] = w})

\* C10: end-to-end word count.  When the reduce phase begins the groups are
\* {w: [1 repeated n_w times]}, and when start_job has returned the lines of
\* the output are exactly those of the pairs (w, n_w), one per distinct word w
\* of the input, n_w being the occurrences of w in the whole input.
C10_WordCount ==
    /\ pc = "reducer_setup" =>
         /\ {shuffle_pair[i].key : i \in 1..Len(shuffle_pair)} = WordSet
         /\ Len(shuffle_pair) = Cardinality(WordSet)
         /\ \A i \in 1..Len(shuffle_pair) :
              shuffle_pair[i].values =
                 [j \in 1..Occurrences(shuffle_pair[i].key) |-> 1]
    /\ (RunEnded /\ run.status = "returned") =>
         /\ {out_file[i] : i \in 1..Len(out_file)} =
               {output_format_func(w, Occurrences(w)) : w \in WordSet}
         /\ Len(out_file) = Cardinality(WordSet)

\* the word count has returned on an input where "a" occurs twice, on two lines
C10_Witness ==
    /\ RunEnded /\ run.status = "returned"
    /\ Len(file_lines(source)) = 2
    /\ Len(out_file) = 2
    /\ \E i \in 1..2 : out_file[i] = <<"a", " ", "2", "\n">>

\* a step that calls start_job
StartJobStep == runs' = runs + 1

\* C11: start preconditions.  A call of start_job made while the mapper, the
\* reducer, the input stream (with the map context) or the output stream (with
\* the reduce context) is not set raises AssertionError at once: no stream is
\* opened, no hook is invoked, and the success flag, the shuffle phase, the
\* shuffle groups and the files are unchanged.
C11_StartPreconditions ==
    [][(StartJobStep /\ (mapper = "None" \/ reducer = "None"
                          \/ input_stream = "None" \/ output_stream = "None"))
          => /\ pc' = "idle"
             /\ run'.status = "raised"
             /\ run'.exc = "AssertionError"
             /\ calls' = <<>>
             /\ UNCHANGED <<open_state, successful, store, sink, handle, gen_pos>>]_vars

\* start_job has raised at the start check on a job with no reducer, with the
\* store still as the caller's earlier write left it
C11_Witness ==
    /\ RunEnded
    /\ run.exc = "AssertionError" /\ run.hook = "none"
    /\ calls = <<>>
    /\ mapper # "None" /\ reducer = "None"
    /\ input_stream # "None" /\ output_stream # "None"
    /\ shuffle_pair # <<>>
    /\ \A o \in Objs : open_state[o] = "unset"

\* C12: external I/O failure timing.  When start_job ends with the failure of
\* opening the source (FileNotFoundError) or the sink (OSError), no hook of that
\* run has been invoked and user code has written nothing during it.
C12_IOFailureTiming ==
    (RunEnded /\ run.status = "raised" /\ run.exc \in {"FileNotFoundError", "OSError"})
        => (calls = <<>> /\ ops = run.ops0)

\* C13: immutable configuration.  What get_configuration() returns on the map
\* context and on the reduce context equals, in every state, the configuration
\* supplied when the job was constructed.
C13_ImmutableConfiguration ==
    \A ctx \in {"map_context", "reduce_context"} : get_configuration(ctx) = supplied

\* C14: phase gating of reads.  While the shuffle store is in write phase, what
\* entering its scope returns is not an iterator of groups, and no attempt to
\* read from it has yielded a group.
C14_NoReadInWritePhase ==
    write_phase => (handle.kind # "iter" /\ handle.pos = 0 /\ handle.last # "item")

\* the caller has entered the store in write phase, a group is in it, and
\* next() on the handle has raised TypeError
C14_Witness ==
    /\ pc = "client_scope"
    /\ write_phase
    /\ shuffle_pair # <<>>
    /\ handle.kind = "self"
    /\ handle.last = "TypeError"

\* C15: scoped release on every exit path.  After start_job has ended, by
\* returning or by raising, no stream reports is_open() = true.
C15_ScopedRelease == RunEnded => \A o \in Objs : ~is_open(o)

\* n times x
Rep(n, x) == [i \in 1..n |-> x]

\* C16: hook ordering within a phase.  The k-th call of mapper.map follows
\* mapper.setup and the k - 1 earlier map calls and is handed the k-th record of
\* the input; the k-th call of reducer.reduce is handed the k-th group of the
\* store; reducer.cleanup is invoked when every group the store held has been
\* reduced; and a run that returns has invoked setup, one map per record,
\* cleanup, then setup, the reduce calls, cleanup, in this order.
C16_HookOrdering ==
    /\ pc = "mapper_map" =>
         /\ calls = <<"mapper_setup">> \o Rep(gen_pos, "mapper_map")
         /\ gen_pos \in 1..Len(file_lines(source))
         /\ cur = input_format_func(gen_pos - 1, file_lines(source)[gen_pos])
    /\ pc = "reducer_reduce" =>
         /\ Count("reducer_reduce") = handle.pos
         /\ handle.pos \in 1..Len(shuffle_pair)
         /\ cur.key = shuffle_pair[handle.pos].key
    /\ pc = "reducer_cleanup" =>
         /\ Count("reducer_reduce") = handle.used
         /\ handle.pos = handle.used
    /\ (pc = "set_successful" \/ (RunEnded /\ run.status = "returned")) =>
         calls = <<"mapper_setup">>
                 \o Rep(Len(file_lines(source)), "mapper_map")
                 \o <<"mapper_cleanup", "reducer_setup">>
                 \o Rep(Count("reducer_reduce"), "reducer_reduce")
                 \o <<"reducer_cleanup">>

\* a run over two records and two groups has returned
C16_Witness ==
    /\ RunEnded /\ run.status = "returned"
    /\ calls = <<"mapper_setup", "mapper_map", "mapper_map", "mapper_cleanup",
                 "reducer_setup", "reducer_reduce", "reducer_reduce",
                 "reducer_cleanup">>

\* a step that leaves, and a step that enters, the scope of the shuffle store
StoreExitStep ==
    open_state["shuffle_stream"] = "True" /\ open_state'["shuffle_stream"] = "False"
StoreEnterStep ==
    open_state["shuffle_stream"] # "True" /\ open_state'["shuffle_stream"] = "True"

\* C17: phase monotonicity.  The store starts in write phase; a step changes
\* the phase only by leaving the store's scope in write phase, which sets it to
\* read; leaving the scope in write phase always does so; entering the scope
\* leaves the phase as it is; and no step takes the phase from read to write.
C17_PhaseMonotonic ==
    /\ write_phase = TRUE
    /\ [][/\ write_phase' # write_phase =>
               (write_phase /\ ~write_phase' /\ StoreExitStep)
          /\ (StoreExitStep /\ write_phase) => ~write_phase'
          /\ StoreEnterStep => write_phase' = write_phase]_vars

\* the store is entered again after a read scope was left and a write was made
\* to it in read phase, and is still in read phase
C17_Witness ==
    /\ ~write_phase
    /\ read_exits >= 1
    /\ shuffle_pair # <<>>
    /\ is_open("shuffle_stream")
    /\ handle.kind = "iter"

\* a step in which user code makes a write through ctx that returns normally
ContextWriteStep(ctx) ==
    /\ ops' = ops + 1
    /\ W' # W \/ out_file' # out_file
    /\ last_write'.via = ctx
    /\ last_write'.result = "ok"

\* C18: context pass-through.  A context.write(key, value) that returns
\* normally has made exactly one write(key, value) on the stream the context
\* wraps for writing, and nothing else has changed: not the other stream, the
\* input, any open_state, the shuffle phase, the configuration or the flag.
C18_ContextPassThrough ==
    [][/\ ContextWriteStep("map_context") =>
            /\ \E k \in UserKeys, v \in UserValues :
                 /\ shuffle_pair' = DictWrite(shuffle_pair, k, v)
                 /\ W' = Append(W, <<k, v>>)
            /\ UNCHANGED <<sink, write_phase>>
       /\ ContextWriteStep("reduce_context") =>
            /\ \E k \in UserKeys, v \in UserValues :
                 out_file' = Append(out_file, output_format_func(k, v))
            /\ UNCHANGED <<store, file_stream, W>>
       /\ (ContextWriteStep("map_context") \/ ContextWriteStep("reduce_context")) =>
            UNCHANGED <<config, environ, open_state, successful, gen_pos, handle,
                        cur, pc, exc, runs, calls, read_exits, run>>]_vars

\* reducer.setup has written a record to the sink through the reduce context
C18_Witness ==
    /\ pc = "reducer_setup"
    /\ last_write.via = "reduce_context"
    /\ last_write.result = "ok"
    /\ Len(out_file) = 1

\* the stage of a run in which the reduce scope is or has been open
ReduceStage == ReducerHooks \cup {"reduce_next", "reduce_exit", "set_successful"}

\* C19: a job is single-use.  In a run of start_job that began with the store
\* in read phase, as every run does once a map scope has been left, the store
\* is empty when the map scope has been left, whatever the map phase wrote;
\* reducer.reduce is never invoked; and unless user code writes during the run
\* the sink is empty once the reduce scope has been entered.
C19_SingleUse ==
    (run.status # "none" /\ ~run.phase0) =>
        /\ Count("reducer_reduce") = 0
        /\ pc = "reduce_enter" => (shuffle_pair = <<>> /\ W = <<>>)
        /\ ((pc \in ReduceStage \/ (RunEnded /\ run.status = "returned"))
            /\ ops = run.ops0) => out_file = <<>>

\* the second run has returned with the flag set; its mapper wrote to the store
\* through the map context, and no reduce call was made
C19_Witness ==
    /\ runs = 2
    /\ RunEnded /\ run.status = "returned" /\ ~run.phase0
    /\ is_successful
    /\ Count("mapper_map") >= 1
    /\ last_write.via = "map_context" /\ last_write.result = "ok"
    /\ ~last_write.write_phase
    /\ ops > run.ops0
    /\ Count("reducer_reduce") = 0
    /\ out_file = <<>>

\* C20: the output stream is opened only after the map scope.  The input
\* stream and the output stream never both report is_open() = true, and in a
\* first run in which a mapper hook raises the output stream is never opened
\* and the sink is not touched.
C20_OutputAfterMap ==
    /\ ~(is_open("input_stream") /\ is_open("output_stream"))
    /\ (runs = 1 /\ run.hook \in MapperHooks) =>
         (~has_open_state("output_stream") /\ file_stream = "None" /\ out_file = <<>>)

====
